---- MODULE Spec2Model ----
(***************************************************************************)
(* A model of the Nuitka/CPython benchmarking harness.                     *)
(*                                                                         *)
(*   src/Utilities.py  resolve_venv_path, create_venv_with_version,        *)
(*                     run_benchmark                                       *)
(*   src/sampler.py    Benchmark.from_path and its parsers,                *)
(*                     Benchmark._calculate_stats, the aggregation loop,   *)
(*                     format_benchmark_stat, the table rendering loop     *)
(*                                                                         *)
(* Durations are whole numbers of time units.  A Python list is a          *)
(* sequence, a dict a function on its keys, a str a string.  A raised      *)
(* exception is recorded by its class name.                                *)
(***************************************************************************)
EXTENDS Integers, Sequences, FiniteSets, TLC

VARIABLES
    \* run_benchmark (src/Utilities.py)
    iterations,         \* the iterations argument
    rpc,                \* where run_benchmark is
    loop_i,             \* runs completed in the current for loop
    local_results,      \* the local_results dict
    run_log,            \* every subprocess run started, in order
    returned,           \* <<>> or <<the returned dict>>
    run_exc,            \* the exception run_benchmark raised, or "none"
    \* Benchmark._calculate_stats (src/sampler.py), applied to one Stats
    stats_in, stats_out,
    \* format_benchmark_stat (src/sampler.py), applied to one pair
    fmt_in, fmt_out,
    \* the aggregator script (src/sampler.py)
    apc,                \* where the script is
    walked,             \* result files visited by the walk so far
    results_container,  \* the results_container dict
    sorted_results,     \* the sorted items still to render
    tables,             \* the tables printed so far
    agg_exc,            \* the exception that ended the script, or "none"
    \* the environment resolver (src/Utilities.py)
    fs,                 \* the paths that exist on disk
    in_venv,            \* is_in_venv()
    vpc,                \* where the resolver call is
    venv_call,          \* the call made
    venv_rc,            \* the venv subprocess's exit code
    venv_out            \* the call's outcome

vars == <<iterations, rpc, loop_i, local_results, run_log, returned, run_exc,
          stats_in, stats_out, fmt_in, fmt_out,
          apc, walked, results_container, sorted_results, tables, agg_exc,
          fs, in_venv, vpc, venv_call, venv_rc, venv_out>>

runVars == <<iterations, rpc, loop_i, local_results, run_log, returned, run_exc>>
statVars == <<stats_in, stats_out>>
fmtVars == <<fmt_in, fmt_out>>
aggVars == <<apc, walked, results_container, sorted_results, tables, agg_exc>>
venvVars == <<fs, in_venv, vpc, venv_call, venv_rc, venv_out>>

----------------------------------------------------------------------------
(* Bounds of the model. *)

\* the largest iteration count passed to run_benchmark
MaxIter == 3
\* the largest elapsed time of one run, and the largest recorded sample
MaxTime == 3
\* the longest sample list given to _calculate_stats on its own
MaxLen == 3
\* the largest number given to format_benchmark_stat on its own
MaxVal == 10
\* the most result files one walk of the results tree visits
MaxFiles == 3

Times == 1..MaxTime
ReturnCodes == {0, 1, 2}

----------------------------------------------------------------------------
(* Python built-ins used by the code. *)

RECURSIVE SeqSum(_)
SeqSum(s) == IF s = <<>> THEN 0 ELSE Head(s) + SeqSum(Tail(s))

\* max(list) and min(list) of a non-empty list
SeqMax(s) == CHOOSE m \in {s[k] : k \in DOMAIN s} : \A k \in DOMAIN s : s[k] <= m
SeqMin(s) == CHOOSE m \in {s[k] : k \in DOMAIN s} : \A k \in DOMAIN s : m <= s[k]

\* list[b:] for a bool b: the slice starts at int(b)
SliceFrom(s, b) == IF b /\ s # <<>> THEN Tail(s) ELSE s

\* sequences over S of length 0..n
SeqsUpTo(S, n) == UNION {[1..k -> S] : k \in 0..n}

----------------------------------------------------------------------------
(* run_benchmark, src/Utilities.py:80-131 *)

\* line 108 / 122: res.returncode != 0
RunFailed_AboveOne(rc) == rc > 1
RunFailed(rc) == rc # 0

\* the for loops over range(iterations), lines 101-105 and 115-119
LoopDone_OneMore(k, n) == k >= n + 1
LoopDone(k, n) == k >= n

\* lines 112-113 on a non-empty list
TrimWarmup_Min(w) == IF SeqMin(w) = w[1] THEN Tail(w) ELSE w
TrimWarmup(w) == IF SeqMax(w) = w[1] THEN Tail(w) ELSE w

RunInit ==
    /\ iterations \in 0..MaxIter
    /\ rpc = "warmup"
    /\ loop_i = 0
    /\ local_results = [warmup |-> <<>>, benchmark |-> <<>>]
    /\ run_log = <<>>
    /\ returned = <<>>
    /\ run_exc = "none"

RunIdle ==
    /\ iterations = 0
    /\ rpc = "idle"
    /\ loop_i = 0
    /\ local_results = [warmup |-> <<>>, benchmark |-> <<>>]
    /\ run_log = <<>>
    /\ returned = <<>>
    /\ run_exc = "none"

\* one pass of the loop body at lines 106-110 (phase "warmup") or 120-125
\* (phase "benchmark"): the subprocess runs, takes t and exits with rc
TimedRun(phase) ==
    /\ rpc = phase
    /\ ~LoopDone(loop_i, iterations)
    /\ \E rc \in ReturnCodes, t \in Times :
        /\ run_log' = Append(run_log, [phase |-> phase, rc |-> rc, t |-> t])
        /\ IF RunFailed(rc)
           THEN /\ rpc' = "raised"
                /\ run_exc' = "RuntimeError"
                /\ UNCHANGED <<loop_i, local_results>>
           ELSE /\ local_results' =
                      [local_results EXCEPT ![phase] = Append(@, t)]
                /\ loop_i' = loop_i + 1
                /\ UNCHANGED <<rpc, run_exc>>
    /\ UNCHANGED <<iterations, returned>>

WarmupRun == TimedRun("warmup") /\ UNCHANGED <<statVars, fmtVars, aggVars, venvVars>>

\* lines 112-113, reached when the warm-up loop is exhausted
WarmupTrim ==
    /\ rpc = "warmup"
    /\ LoopDone(loop_i, iterations)
    /\ IF local_results.warmup = <<>>
       THEN \* max() of an empty list
            /\ rpc' = "raised"
            /\ run_exc' = "ValueError"
            /\ UNCHANGED <<local_results, loop_i>>
       ELSE /\ local_results' =
                  [local_results EXCEPT !.warmup = TrimWarmup(@)]
            /\ rpc' = "benchmark"
            /\ loop_i' = 0
            /\ UNCHANGED run_exc
    /\ UNCHANGED <<iterations, run_log, returned>>
    /\ UNCHANGED <<statVars, fmtVars, aggVars, venvVars>>

BenchmarkRun == TimedRun("benchmark") /\ UNCHANGED <<statVars, fmtVars, aggVars, venvVars>>

\* lines 127-131, reached when the measurement loop is exhausted
RunReturn ==
    /\ rpc = "benchmark"
    /\ LoopDone(loop_i, iterations)
    /\ returned' = <<local_results>>
    /\ rpc' = "returned"
    /\ UNCHANGED <<iterations, loop_i, local_results, run_log, run_exc>>
    /\ UNCHANGED <<statVars, fmtVars, aggVars, venvVars>>


----------------------------------------------------------------------------
(* Numbers.  A float computed as a quotient is kept as the exact fraction  *)
(* sum/n with n > 0; it is compared and formatted as that fraction.        *)

Frac(a, b) == [sum |-> a, n |-> b]
FracLess(x, y) == x.sum * y.n < y.sum * x.n
FracEq(x, y) == x.sum * y.n = y.sum * x.n

\* statistics.mean of a non-empty list (sampler.py:6)
mean(s) == Frac(SeqSum(s), Len(s))

\* the nearest integer to a/b for a >= 0, b > 0, a tie going to the even one
RoundHalfEven(a, b) ==
    LET q == a \div b
        r == a % b
    IN  IF 2 * r > b \/ (2 * r = b /\ q % 2 = 1) THEN q + 1 ELSE q

\* the text of h hundredths: 2500 is "25.00"
Hundredths(h) ==
    ToString(h \div 100) \o "." \o ToString((h % 100) \div 10) \o ToString(h % 10)

\* f"{x:.2f}" of a non-negative x
Fmt2f(x) == Hundredths(RoundHalfEven(100 * x.sum, x.n))

----------------------------------------------------------------------------
(* Benchmark._calculate_stats, src/sampler.py:70-75 *)

Stats(name, warmup, benchmark) ==
    [name |-> name, warmup |-> warmup, benchmark |-> benchmark]

NoFrac == Frac(0, 1)

\* min(samples) == samples[0], lines 71 and 72, for a non-empty list
is_skewed_Max(samples) == SeqMax(samples) = samples[1]
is_skewed(samples) == SeqMin(samples) = samples[1]

\* The outcome of _calculate_stats: the exception it raises or "none", the
\* two local means and the returned value.
_calculate_stats(results) ==
    LET fail(e) == [exc |-> e, warmup |-> NoFrac, benchmark |-> NoFrac,
                    value |-> NoFrac]
    IN
    IF results.warmup = <<>> THEN fail("ValueError")             \* line 71
    ELSE IF results.benchmark = <<>> THEN fail("ValueError")     \* line 72
    ELSE
      LET is_warmup_skewed == is_skewed(results.warmup)
          is_benchmark_skewed == is_skewed(results.benchmark)
          w == SliceFrom(results.warmup, is_warmup_skewed)
          b == SliceFrom(results.benchmark, is_benchmark_skewed)
      IN  IF w = <<>> THEN fail("StatisticsError")               \* line 73
          ELSE IF b = <<>> THEN fail("StatisticsError")          \* line 74
          ELSE [exc |-> "none", warmup |-> mean(w), benchmark |-> mean(b),
                value |-> IF FracLess(mean(b), mean(w))
                          THEN mean(b) ELSE mean(w)]             \* line 75

\* calculate_nuitka_stats / calculate_cpython_stats, lines 77-81
calculate_stats_str(results) ==
    LET r == _calculate_stats(results)
    IN  IF r.exc # "none" THEN [exc |-> r.exc, str |-> ""]
        ELSE [exc |-> "none", str |-> Fmt2f(r.value)]

StatsInit ==
    /\ stats_in \in {Stats("nuitka", w, b) :
                        w \in SeqsUpTo(Times, MaxLen), b \in SeqsUpTo(Times, MaxLen)}
    /\ stats_out = <<>>

StatsIdle ==
    /\ stats_in = Stats("nuitka", <<>>, <<>>)
    /\ stats_out = <<>>

CalculateStats ==
    /\ stats_out = <<>>
    /\ stats_out' = <<_calculate_stats(stats_in)>>
    /\ UNCHANGED stats_in
    /\ UNCHANGED <<runVars, fmtVars, aggVars, venvVars>>

----------------------------------------------------------------------------
(* format_benchmark_stat, src/sampler.py:114-123 *)

format_benchmark_stat_Swapped(nuitka, cpython) ==
    IF FracLess(nuitka, cpython)
    THEN Fmt2f(nuitka) \o " -[red]"
         \o Fmt2f(Frac(100 * (cpython.sum * nuitka.n - nuitka.sum * cpython.n),
                       nuitka.sum * cpython.n))
         \o "%[/red]"
    ELSE IF FracLess(cpython, nuitka)
    THEN Fmt2f(nuitka) \o " +[green]"
         \o Fmt2f(Frac(100 * (nuitka.sum * cpython.n - cpython.sum * nuitka.n),
                       cpython.sum * nuitka.n))
         \o "%[/green]"
    ELSE Fmt2f(nuitka)

format_benchmark_stat(nuitka, cpython) ==
    IF FracLess(nuitka, cpython)
    THEN \* percentage = (cpython / nuitka) * 100 - 100
         Fmt2f(nuitka) \o " +[green]"
         \o Fmt2f(Frac(100 * (cpython.sum * nuitka.n - nuitka.sum * cpython.n),
                       nuitka.sum * cpython.n))
         \o "%[/green]"
    ELSE IF FracLess(cpython, nuitka)
    THEN \* percentage = (nuitka / cpython) * 100 - 100
         Fmt2f(nuitka) \o " -[red]"
         \o Fmt2f(Frac(100 * (nuitka.sum * cpython.n - cpython.sum * nuitka.n),
                       cpython.sum * nuitka.n))
         \o "%[/red]"
    ELSE Fmt2f(nuitka)

\* the positive numbers given to format_benchmark_stat: wholes and halves
FmtValues == {Frac(v, d) : v \in 1..MaxVal, d \in {1, 2}}

FmtInit ==
    /\ fmt_in \in [nuitka : FmtValues, cpython : FmtValues]
    /\ fmt_out = <<>>

FmtIdle ==
    /\ fmt_in = [nuitka |-> Frac(1, 1), cpython |-> Frac(1, 1)]
    /\ fmt_out = <<>>

FormatBenchmarkStat ==
    /\ fmt_out = <<>>
    /\ fmt_out' = <<format_benchmark_stat(fmt_in.nuitka, fmt_in.cpython)>>
    /\ UNCHANGED fmt_in
    /\ UNCHANGED <<runVars, statVars, aggVars, venvVars>>

----------------------------------------------------------------------------
(* str methods used by the parsers *)

\* str.split(sep) for a one-character sep; cur is the piece being read
RECURSIVE SplitFrom(_, _, _)
SplitFrom(s, sep, cur) ==
    IF s = "" THEN <<cur>>
    ELSE IF Head(s) = sep THEN <<cur>> \o SplitFrom(Tail(s), sep, "")
    ELSE SplitFrom(Tail(s), sep, cur \o Head(s))

split(s, sep) == SplitFrom(s, sep, "")

\* str.strip(chars): drop leading and trailing characters that are in chars
RECURSIVE lstrip(_, _)
lstrip(s, chars) ==
    IF s # "" /\ Head(s) \in chars THEN lstrip(Tail(s), chars) ELSE s

RECURSIVE rstrip(_, _)
rstrip(s, chars) ==
    IF s # "" /\ SubSeq(s, Len(s), Len(s)) \in chars
    THEN rstrip(SubSeq(s, 1, Len(s) - 1), chars) ELSE s

strip(s, chars) == rstrip(lstrip(s, chars), chars)

Digits == {"0", "1", "2", "3", "4", "5", "6", "7", "8", "9"}

DigitValue(c) ==
    CASE c = "0" -> 0 [] c = "1" -> 1 [] c = "2" -> 2 [] c = "3" -> 3
      [] c = "4" -> 4 [] c = "5" -> 5 [] c = "6" -> 6 [] c = "7" -> 7
      [] c = "8" -> 8 [] c = "9" -> 9

IsDecimal(s) == s # "" /\ \A k \in 1..Len(s) : SubSeq(s, k, k) \in Digits

\* int(s) of a string of decimal digits; acc is the value read so far
RECURSIVE IntFrom(_, _)
IntFrom(s, acc) ==
    IF s = "" THEN acc ELSE IntFrom(Tail(s), 10 * acc + DigitValue(Head(s)))

int(s) == IntFrom(s, 0)

----------------------------------------------------------------------------
(* Benchmark.from_path and its parsers, src/sampler.py:26-68 *)

\* parse_file_name, lines 27-31: the exception raised or "none", and the
\* returned tuple
parse_file_name(file_name) ==
    LET parts == split(file_name, "-")
        none == [exc |-> "none", target |-> "", nuitka_version |-> "",
                 python_version |-> <<0, 0>>]
    IN  IF Len(parts) # 3                       \* line 28: unpacking
        THEN [none EXCEPT !.exc = "ValueError"]
        ELSE LET py_ver_split == split(parts[3], ".")
             IN  IF ~IsDecimal(py_ver_split[1])                  \* line 30
                 THEN [none EXCEPT !.exc = "ValueError"]
                 ELSE IF Len(py_ver_split) < 2
                 THEN [none EXCEPT !.exc = "IndexError"]
                 ELSE IF ~IsDecimal(py_ver_split[2])
                 THEN [none EXCEPT !.exc = "ValueError"]
                 ELSE [exc |-> "none",
                       target |-> parts[1],
                       nuitka_version |-> parts[2],
                       python_version |-> <<int(py_ver_split[1]),
                                            int(py_ver_split[2])>>]

NoStats == Stats("", <<>>, <<>>)

\* parse_stats, lines 34-48: a missing key raises KeyError
parse_stats_Lenient(stats) ==
    LET get(d, k) == IF k \in DOMAIN d THEN d[k] ELSE <<>>
        mode(k) == IF k \in DOMAIN stats THEN stats[k]
                   ELSE [warmup |-> <<>>, benchmark |-> <<>>]
    IN  [exc |-> "none",
         nuitka |-> Stats("nuitka", get(mode("nuitka"), "warmup"),
                          get(mode("nuitka"), "benchmark")),
         cpython |-> Stats("cpython", get(mode("cpython"), "warmup"),
                           get(mode("cpython"), "benchmark"))]

parse_stats(stats) ==
    IF \/ "nuitka" \notin DOMAIN stats                          \* line 35
       \/ "cpython" \notin DOMAIN stats                         \* line 36
       \/ {"warmup", "benchmark"} \ DOMAIN stats["nuitka"] # {} \* lines 40-41
       \/ {"warmup", "benchmark"} \ DOMAIN stats["cpython"] # {} \* lines 45-46
    THEN [exc |-> "KeyError", nuitka |-> NoStats, cpython |-> NoStats]
    ELSE [exc |-> "none",
          nuitka |-> Stats("nuitka", stats["nuitka"]["warmup"],
                           stats["nuitka"]["benchmark"]),
          cpython |-> Stats("cpython", stats["cpython"]["warmup"],
                            stats["cpython"]["benchmark"])]

\* from_path, lines 51-68, of a result file [dir, stem, st_size, json]
\* found under benchmarks/<dir>/results/<date>/: the exception raised or
\* "none", and the Benchmark built
from_path(file) ==
    LET raise(e) == [exc |-> e, benchmark |-> <<>>]
    IN  IF ~(file.st_size > 0) THEN raise("FileNotFoundError")   \* line 52
        ELSE LET file_info == parse_file_name(file.stem)
             IN  IF file_info.exc # "none" THEN raise(file_info.exc)
                 ELSE LET parsed_stats == parse_stats(file.json)
                      IN  IF parsed_stats.exc # "none"
                          THEN raise(parsed_stats.exc)
                          ELSE [exc |-> "none",
                                benchmark |->
                                  [target |-> file_info.target,
                                   nuitka_version |-> file_info.nuitka_version,
                                   python_version |-> file_info.python_version,
                                   file_json |-> file.json,
                                   nuitka_stats |-> parsed_stats.nuitka,
                                   cpython_stats |-> parsed_stats.cpython,
                                   benchmark_name |->
                                       strip(file.dir, {"b", "m", "_"})]]

----------------------------------------------------------------------------
(* The aggregator script, src/sampler.py:90-147 *)

\* The result files a walk may meet.  Timing lists of one execution mode:
Quick == [warmup |-> <<2, 1>>, benchmark |-> <<1, 2, 3>>]
Slow == [warmup |-> <<3, 3>>, benchmark |-> <<2, 4>>]
NoWarmup == [warmup |-> <<>>, benchmark |-> <<1>>]
NoBenchmark == [warmup |-> <<2, 3>>, benchmark |-> <<>>]

FileJsons ==
    { [nuitka |-> Quick, cpython |-> Slow],
      [nuitka |-> Slow, cpython |-> Quick],
      [nuitka |-> Quick, cpython |-> Quick],
      [nuitka |-> NoWarmup, cpython |-> Slow],
      [nuitka |-> Quick, cpython |-> NoBenchmark],
      [cpython |-> Slow],
      [nuitka |-> Quick] }

ResultFile(dir, stem, st_size, json) ==
    [dir |-> dir, stem |-> stem, st_size |-> st_size, json |-> json]

ResultFiles ==
    {ResultFile("bm_concurrent_imap", stem, 1, json) :
        stem \in {"run_benchmark-2.7-3.11", "run_benchmark-2.7-3.12"},
        json \in FileJsons}
    \cup {ResultFile("bm_concurrent_imap", stem, 1, [nuitka |-> Quick, cpython |-> Slow]) :
            stem \in {"run_benchmark-3.11", "run_benchmark-2.7-3"}}
    \cup {ResultFile("bm_concurrent_imap", "run_benchmark-2.7-3.11", 0, <<>>)}

\* Benchmark.from_path of each of these files, line 107
ParsedFiles == [file \in ResultFiles |-> from_path(file)]

\* results_container.setdefault(key, []).append(value), lines 109-111
setdefault_append_Replace(d, key, value) ==
    IF key \in DOMAIN d THEN [d EXCEPT ![key] = <<value>>]
    ELSE d @@ (key :> <<value>>)
setdefault_append(d, key, value) ==
    IF key \in DOMAIN d THEN [d EXCEPT ![key] = Append(@, value)]
    ELSE d @@ (key :> <<value>>)

\* the order of (major, minor) tuples
TupleLess(a, b) == a[1] < b[1] \/ (a[1] = b[1] /\ a[2] < b[2])

\* sorted(d.items(), key=lambda x: x[0], reverse=True), lines 126 and 129
RECURSIVE sorted_items(_)
sorted_items(d) ==
    IF DOMAIN d = {} THEN <<>>
    ELSE LET top == CHOOSE k \in DOMAIN d : \A j \in DOMAIN d : ~TupleLess(k, j)
         IN  <<[python_version |-> top, benchmarks |-> d[top]]>>
             \o sorted_items([k \in DOMAIN d \ {top} |-> d[k]])

\* the cells of one add_row call, lines 138-143: the exception raised while
\* computing them or "none", and the row
table_row(benchmark, python_version) ==
    LET cpython == calculate_stats_str(benchmark.cpython_stats)
        nuitka == calculate_stats_str(benchmark.nuitka_stats)
    IN  IF cpython.exc # "none" THEN [exc |-> cpython.exc, row |-> <<>>]
        ELSE IF nuitka.exc # "none" THEN [exc |-> nuitka.exc, row |-> <<>>]
        ELSE [exc |-> "none",
              row |-> <<benchmark.benchmark_name,
                        cpython.str,
                        nuitka.str,
                        ToString(python_version[1]) \o "."
                            \o ToString(python_version[2])>>]

\* the loop at lines 137-143 over the rest of a bucket: the first exception
\* ends it
RECURSIVE table_rows(_, _)
table_rows(benchmarks, python_version) ==
    IF benchmarks = <<>> THEN [exc |-> "none", rows |-> <<>>]
    ELSE LET first == table_row(Head(benchmarks), python_version)
         IN  IF first.exc # "none" THEN [exc |-> first.exc, rows |-> <<>>]
             ELSE LET rest == table_rows(Tail(benchmarks), python_version)
                  IN  IF rest.exc # "none" THEN rest
                      ELSE [exc |-> "none", rows |-> <<first.row>> \o rest.rows]

AggInit ==
    /\ apc = "walk"
    /\ walked = <<>>
    /\ results_container = <<>>
    /\ sorted_results = <<>>
    /\ tables = <<>>
    /\ agg_exc = "none"

AggIdle ==
    /\ apc = "idle"
    /\ walked = <<>>
    /\ results_container = <<>>
    /\ sorted_results = <<>>
    /\ tables = <<>>
    /\ agg_exc = "none"

\* one pass of the innermost loop body, lines 103-111, on the next result
\* file of the tree
WalkFile ==
    /\ apc = "walk"
    /\ Len(walked) < MaxFiles
    /\ \E result \in ResultFiles :
        LET benchmark_result == ParsedFiles[result]
        IN  /\ walked' = Append(walked, result)
            /\ IF benchmark_result.exc # "none"
               THEN /\ apc' = "raised"
                    /\ agg_exc' = benchmark_result.exc
                    /\ UNCHANGED results_container
               ELSE /\ results_container' =
                          setdefault_append(results_container,
                              benchmark_result.benchmark.python_version,
                              benchmark_result.benchmark)
                    /\ UNCHANGED <<apc, agg_exc>>
    /\ UNCHANGED <<sorted_results, tables>>
    /\ UNCHANGED <<runVars, statVars, fmtVars, venvVars>>

\* the tree is exhausted: lines 126-129
WalkEnd ==
    /\ apc = "walk"
    /\ sorted_results' = sorted_items(results_container)
    /\ apc' = "render"
    /\ UNCHANGED <<walked, results_container, tables, agg_exc>>
    /\ UNCHANGED <<runVars, statVars, fmtVars, venvVars>>

\* one pass of the loop body at lines 130-145
RenderTable ==
    /\ apc = "render"
    /\ sorted_results # <<>>
    /\ LET python_version == Head(sorted_results).python_version
           benchmarks == Head(sorted_results).benchmarks
           r == table_rows(benchmarks, python_version)
       IN  IF r.exc # "none"
           THEN /\ apc' = "raised"
                /\ agg_exc' = r.exc
                /\ UNCHANGED <<sorted_results, tables>>
           ELSE /\ tables' = Append(tables,
                       [title |-> "Benchmarks",
                        columns |-> <<"Benchmark", "CPython", "Nuitka Release",
                                      "Python Version">>,
                        rows |-> r.rows])
                /\ sorted_results' = Tail(sorted_results)
                /\ UNCHANGED <<apc, agg_exc>>
    /\ UNCHANGED <<walked, results_container>>
    /\ UNCHANGED <<runVars, statVars, fmtVars, venvVars>>

\* line 147, reached when every table is printed
RenderEnd ==
    /\ apc = "render"
    /\ sorted_results = <<>>
    /\ apc' = "done"
    /\ UNCHANGED <<walked, results_container, sorted_results, tables, agg_exc>>
    /\ UNCHANGED <<runVars, statVars, fmtVars, venvVars>>

----------------------------------------------------------------------------
(* The environment resolver, src/Utilities.py:52-77 *)

\* Path(sys.executable).resolve(): the running interpreter, which exists
SysExecutable == "python"

Versions == {"3.11", "3.12"}

\* the directories the two functions create
VenvDirs == {"venv"} \cup {v \o "_venv" : v \in Versions}

\* new_venv_path / "Scripts" / "python.exe"
ScriptsPython(new_venv_path) == new_venv_path \o "/Scripts/python.exe"

\* what may exist on disk: a file exists only inside an existing directory
Disks ==
    {{SysExecutable} \cup dirs \cup {ScriptsPython(d) : d \in exes} :
        dirs \in SUBSET VenvDirs, exes \in SUBSET VenvDirs}

WellFormedDisk(disk) == \A d \in VenvDirs : ScriptsPython(d) \in disk => d \in disk

\* what a venv subprocess may leave of its target directory: nothing, the
\* directory alone (an interpreter laid out elsewhere in it, or a partial
\* creation), or the directory with Scripts/python.exe
VenvEffects(new_venv_path) ==
    {{}, {new_venv_path}, {new_venv_path, ScriptsPython(new_venv_path)}}

\* lines 58-65 and 70-77, after the subprocess: the checks and the return
venv_checked(returncode, new_venv_path, disk) ==
    IF returncode # 0 THEN [exc |-> "RuntimeError", path |-> ""]
    ELSE IF new_venv_path \in disk               \* new_venv_path.exists()
    THEN [exc |-> "none", path |-> ScriptsPython(new_venv_path)]
    ELSE [exc |-> "FileNotFoundError", path |-> ""]

VenvInit ==
    /\ fs \in {d \in Disks : WellFormedDisk(d)}
    /\ in_venv \in BOOLEAN
    /\ vpc = "ready"
    /\ venv_call = "none"
    /\ venv_rc = 0
    /\ venv_out = [exc |-> "none", path |-> ""]

VenvIdle ==
    /\ fs = {SysExecutable}
    /\ in_venv = FALSE
    /\ vpc = "idle"
    /\ venv_call = "none"
    /\ venv_rc = 0
    /\ venv_out = [exc |-> "none", path |-> ""]

\* resolve_venv_path(), lines 52-65
ResolveVenvPath ==
    /\ vpc = "ready"
    /\ venv_call' = "resolve_venv_path"
    /\ IF in_venv
       THEN /\ venv_out' = [exc |-> "none", path |-> SysExecutable]
            /\ UNCHANGED <<fs, venv_rc>>
       ELSE \E rc \in ReturnCodes, made \in VenvEffects("venv") :
              /\ venv_rc' = rc
              /\ fs' = fs \cup made
              /\ venv_out' = venv_checked(rc, "venv", fs \cup made)
    /\ vpc' = IF venv_out'.exc = "none" THEN "returned" ELSE "raised"
    /\ UNCHANGED in_venv
    /\ UNCHANGED <<runVars, statVars, fmtVars, aggVars>>

\* create_venv_with_version(version), lines 68-77
CreateVenvWithVersion ==
    /\ vpc = "ready"
    /\ \E version \in Versions, rc \in ReturnCodes :
        \E made \in VenvEffects(version \o "_venv") :
          /\ venv_call' = version
          /\ venv_rc' = rc
          /\ fs' = fs \cup made
          /\ venv_out' = venv_checked(rc, version \o "_venv", fs \cup made)
    /\ vpc' = IF venv_out'.exc = "none" THEN "returned" ELSE "raised"
    /\ UNCHANGED in_venv
    /\ UNCHANGED <<runVars, statVars, fmtVars, aggVars>>


----------------------------------------------------------------------------
(* Specifications: one per program part, the other parts idle. *)

\* one call of run_benchmark
Init == RunInit /\ StatsIdle /\ FmtIdle /\ AggIdle /\ VenvIdle
Next == WarmupRun \/ WarmupTrim \/ BenchmarkRun \/ RunReturn
Spec == Init /\ [][Next]_vars

\* _calculate_stats applied to one Stats
InitStats == RunIdle /\ StatsInit /\ FmtIdle /\ AggIdle /\ VenvIdle
NextStats == CalculateStats
SpecStats == InitStats /\ [][NextStats]_vars

\* format_benchmark_stat applied to one pair of numbers
InitFmt == RunIdle /\ StatsIdle /\ FmtInit /\ AggIdle /\ VenvIdle
NextFmt == FormatBenchmarkStat
SpecFmt == InitFmt /\ [][NextFmt]_vars

\* one run of the aggregator script
InitAgg == RunIdle /\ StatsIdle /\ FmtIdle /\ AggInit /\ VenvIdle
NextAgg == WalkFile \/ WalkEnd \/ RenderTable \/ RenderEnd
SpecAgg == InitAgg /\ [][NextAgg]_vars

\* one call of the environment resolver
InitVenv == RunIdle /\ StatsIdle /\ FmtIdle /\ AggIdle /\ VenvInit
NextVenv == ResolveVenvPath \/ CreateVenvWithVersion
SpecVenv == InitVenv /\ [][NextVenv]_vars

----------------------------------------------------------------------------
(* Properties of run_benchmark, checked under Spec *)

\* the elapsed times of the runs k of the log with lo <= k <= hi, in order
LoggedTimes(lo, hi) == [k \in 1..(hi - lo + 1) |-> run_log[lo + k - 1].t]

\* the warm-up samples as recorded, before the trim
RecordedWarmup == LoggedTimes(1, iterations)

FirstIsLargest(w) == \A k \in DOMAIN w : w[k] <= w[1]
FirstIsSmallest(w) == \A k \in DOMAIN w : w[1] <= w[k]

\* C1: with N >= 2 recorded warm-up samples, the returned "warmup" list is
\* the other N-1 samples in order when the first sample is the maximum of
\* the phase, and all N samples in order when it is not.
C1_WarmupTrim ==
    (rpc = "returned" /\ iterations >= 2) =>
        LET w == RecordedWarmup
        IN  /\ FirstIsLargest(w) => returned[1].warmup = Tail(w)
            /\ ~FirstIsLargest(w) => returned[1].warmup = w

C1_Witness ==
    /\ rpc = "returned"
    /\ iterations = 3
    /\ run_log[1].t > run_log[2].t
    /\ run_log[1].t > run_log[3].t
    /\ returned[1].warmup = <<run_log[2].t, run_log[3].t>>

\* C2: a run that exits non-zero is the last run started; the call has
\* raised RuntimeError and returned no result mapping.
C2_FailureAborts ==
    \A k \in DOMAIN run_log :
        run_log[k].rc # 0 =>
            /\ k = Len(run_log)
            /\ rpc = "raised"
            /\ run_exc = "RuntimeError"
            /\ returned = <<>>

C2_Witness ==
    /\ rpc = "raised"
    /\ run_exc = "RuntimeError"
    /\ Len(run_log) = 4
    /\ run_log[4].phase = "benchmark"
    /\ run_log[4].rc = 1
    /\ returned = <<>>

\* C9: a call that returns with iteration count n has started exactly 2n
\* runs, the first n of them warm-up runs and the last n measurement runs,
\* and its "benchmark" list is the n measured times in run order.
C9_TwoPhases ==
    rpc = "returned" =>
        /\ Len(run_log) = 2 * iterations
        /\ \A k \in 1..iterations : run_log[k].phase = "warmup"
        /\ \A k \in (iterations + 1)..(2 * iterations) :
              run_log[k].phase = "benchmark"
        /\ Len(returned[1].benchmark) = iterations
        /\ returned[1].benchmark = LoggedTimes(iterations + 1, 2 * iterations)

C9_Witness ==
    /\ rpc = "returned"
    /\ iterations = 3
    /\ Len(run_log) = 6
    /\ returned[1].benchmark = <<1, 3, 2>>
    /\ Len(returned[1].warmup) = 2

\* C10: for every iteration count n >= 1 the lists a call returns make
\* _calculate_stats return a number.
C10_OutputConsumable ==
    (rpc = "returned" /\ iterations >= 1) =>
        _calculate_stats(Stats("nuitka", returned[1].warmup,
                               returned[1].benchmark)).exc = "none"

----------------------------------------------------------------------------
(* Properties of _calculate_stats, checked under SpecStats *)

\* the mean of a phase as the claim has it
PhaseAverage(samples) ==
    IF FirstIsSmallest(samples)
    THEN Frac(SeqSum(samples) - samples[1], Len(samples) - 1)
    ELSE Frac(SeqSum(samples), Len(samples))

\* C3: for each phase, sample 0 is left out of the average exactly when it
\* equals the minimum of the phase; otherwise every sample is averaged.
\* With no sample left to average the call raises.
C3_SkewedFirstSample ==
    (stats_out # <<>> /\ stats_in.warmup # <<>> /\ stats_in.benchmark # <<>>) =>
        LET out == stats_out[1]
        IN  /\ out.exc = "none" =>
                /\ out.warmup = PhaseAverage(stats_in.warmup)
                /\ out.benchmark = PhaseAverage(stats_in.benchmark)
            /\ out.exc # "none" <=>
                (Len(stats_in.warmup) = 1 \/ Len(stats_in.benchmark) = 1)

C3_Witness ==
    /\ stats_in.warmup = <<1, 3, 2>>
    /\ stats_in.benchmark = <<2, 1, 3>>
    /\ stats_out # <<>>
    /\ stats_out[1].exc = "none"
    /\ stats_out[1].warmup = Frac(5, 2)
    /\ stats_out[1].benchmark = Frac(6, 3)

----------------------------------------------------------------------------
(* Properties of format_benchmark_stat, checked under SpecFmt *)

\* (a / b) * 100 - 100
PercentOver(a, b) == Frac(100 * (a.sum * b.n - b.sum * a.n), b.sum * a.n)

\* C7: nuitka < cpython gives the number, the faster marker and the
\* percentage cpython/nuitka*100-100 (10 and 8 give 25.00%); nuitka >
\* cpython gives the slower marker and nuitka/cpython*100-100; equal values
\* give the bare number.
C7_ThreeWay ==
    fmt_out # <<>> =>
        LET nuitka == fmt_in.nuitka
            cpython == fmt_in.cpython
            out == fmt_out[1]
        IN  /\ FracLess(nuitka, cpython) =>
                out = Fmt2f(nuitka) \o " +[green]"
                      \o Fmt2f(PercentOver(cpython, nuitka)) \o "%[/green]"
            /\ FracLess(cpython, nuitka) =>
                out = Fmt2f(nuitka) \o " -[red]"
                      \o Fmt2f(PercentOver(nuitka, cpython)) \o "%[/red]"
            /\ FracEq(nuitka, cpython) => out = Fmt2f(nuitka)
            /\ (nuitka = Frac(8, 1) /\ cpython = Frac(10, 1)) =>
                out = "8.00 +[green]25.00%[/green]"
            /\ (nuitka = Frac(10, 1) /\ cpython = Frac(8, 1)) =>
                out = "10.00 -[red]25.00%[/red]"
            /\ (nuitka = Frac(7, 2) /\ cpython = Frac(7, 2)) => out = "3.50"

C7_Witness ==
    /\ fmt_in.nuitka = Frac(8, 1)
    /\ fmt_in.cpython = Frac(10, 1)
    /\ fmt_out = <<"8.00 +[green]25.00%[/green]">>

----------------------------------------------------------------------------
(* Properties of the aggregator script, checked under SpecAgg *)

\* every Benchmark record in results_container
ContainerRecords ==
    UNION {{results_container[v][j] : j \in DOMAIN results_container[v]} :
              v \in DOMAIN results_container}

ModeKeys == {"nuitka", "cpython"}
PhaseKeys == {"warmup", "benchmark"}

\* a file from_path gets as far as parse_stats with
Readable(file) == file.st_size > 0 /\ parse_file_name(file.stem).exc = "none"

BothKeys(json) == ModeKeys \subseteq DOMAIN json

HasEmptyArray(json) ==
    BothKeys(json) /\ \E m \in ModeKeys, ph \in PhaseKeys : json[m][ph] = <<>>

\* the walk stopped at file k of the walk, which left no record
RejectedAtParse(k) ==
    /\ k = Len(walked)
    /\ apc = "raised"
    /\ \A r \in ContainerRecords : r.file_json # walked[k].json

\* C4: every row of a printed table shows the Nuitka number as
\* format_benchmark_stat gives it against the CPython number: with a
\* percentage and a color marker unless the two are equal.
C4_RowsShowDelta ==
    \A t \in DOMAIN tables :
        LET benchmarks == sorted_items(results_container)[t].benchmarks
        IN  \A j \in DOMAIN tables[t].rows :
                tables[t].rows[j][3] =
                    format_benchmark_stat(
                        _calculate_stats(benchmarks[j].nuitka_stats).value,
                        _calculate_stats(benchmarks[j].cpython_stats).value)

\* C5 as stated: a result file with an empty array or without the "nuitka"
\* or "cpython" key is rejected at parse time and leaves no record.
C5_EmptyOrMissingRejected ==
    \A k \in DOMAIN walked :
        (/\ Readable(walked[k])
         /\ ~BothKeys(walked[k].json) \/ HasEmptyArray(walked[k].json))
        => RejectedAtParse(k)

\* C5 as amended: a result file without the "nuitka" or "cpython" key is
\* rejected at parse time with KeyError and leaves no record; a result file
\* with both keys and an empty array is parsed, its record is added to its
\* version's bucket, and the script then never gets past rendering.
C5_MissingKeyRejected ==
    \A k \in DOMAIN walked :
        LET file == walked[k]
        IN  /\ (Readable(file) /\ ~BothKeys(file.json)) =>
                (RejectedAtParse(k) /\ agg_exc = "KeyError")
            /\ (Readable(file) /\ HasEmptyArray(file.json)) =>
                /\ parse_file_name(file.stem).python_version
                      \in DOMAIN results_container
                /\ \E r \in ContainerRecords :
                      /\ r.file_json = file.json
                      /\ r.python_version =
                            parse_file_name(file.stem).python_version
                /\ apc # "done"
                /\ k < Len(walked) \/ apc # "raised"
                      \/ agg_exc \in {"ValueError", "StatisticsError"}

C5_Witness ==
    /\ Len(walked) = 2
    /\ HasEmptyArray(walked[1].json)
    /\ ~BothKeys(walked[2].json)
    /\ Readable(walked[2])
    /\ apc = "raised"
    /\ agg_exc = "KeyError"
    /\ Cardinality(ContainerRecords) = 1

\* the records of the files of the walk whose name gives version v, in
\* walk order
RecordsOfVersion(v) ==
    LET HasVersion(file) ==
            /\ ParsedFiles[file].exc = "none"
            /\ ParsedFiles[file].benchmark.python_version = v
        files == SelectSeq(walked, HasVersion)
    IN  [k \in DOMAIN files |-> ParsedFiles[files[k]].benchmark]

VersionTuples == {<<3, 11>>, <<3, 12>>}

VersionText(v) == ToString(v[1]) \o "." \o ToString(v[2])

\* C8: every bucket of results_container is non-empty and holds exactly the
\* records whose parsed python_version is its key; a version with no result
\* file has no bucket, no table and no row, and a walk of no file at all
\* raises nothing.
C8_Buckets ==
    /\ \A v \in DOMAIN results_container :
          /\ results_container[v] # <<>>
          /\ results_container[v] = RecordsOfVersion(v)
          /\ \A j \in DOMAIN results_container[v] :
                results_container[v][j].python_version = v
    /\ \A v \in VersionTuples :
          RecordsOfVersion(v) = <<>> =>
              /\ v \notin DOMAIN results_container
              /\ \A k \in DOMAIN sorted_results :
                    sorted_results[k].python_version # v
              /\ \A t \in DOMAIN tables : \A j \in DOMAIN tables[t].rows :
                    tables[t].rows[j][4] # VersionText(v)
    /\ \A t \in DOMAIN tables : tables[t].rows # <<>>
    /\ Len(tables) <= Cardinality(DOMAIN results_container)
    /\ walked = <<>> => (agg_exc = "none" /\ tables = <<>>)

C8_Witness ==
    /\ apc = "done"
    /\ Len(walked) = 3
    /\ DOMAIN results_container = {<<3, 11>>}
    /\ Len(results_container[<<3, 11>>]) = 3
    /\ Len(tables) = 1
    /\ Len(tables[1].rows) = 3

----------------------------------------------------------------------------
(* Properties of the environment resolver, checked under SpecVenv *)

\* the directory the call made creates
CalledVenvDir ==
    IF venv_call = "resolve_venv_path" THEN "venv" ELSE venv_call \o "_venv"

\* C6: a call that creates an environment raises when the subprocess exits
\* non-zero and when the interpreter executable is absent afterwards; the
\* path it returns is that of an executable that exists.
C6_ExecutableExists ==
    (vpc \in {"returned", "raised"}
        /\ ~(venv_call = "resolve_venv_path" /\ in_venv)) =>
        /\ venv_rc # 0 => vpc = "raised"
        /\ ScriptsPython(CalledVenvDir) \notin fs => vpc = "raised"
        /\ vpc = "returned" => venv_out.path \in fs

====
